---- MODULE Spec2Model ----
(***************************************************************************)
(* OpenAI-to-Replicate proxy.  Four deployments of the same handlers are   *)
(* present in the sources and are modelled side by side:                   *)
(*   "node_legacy"   src/index.js                (replicate.run, no        *)
(*                                                validation, always 500)  *)
(*   "node"          src/unnamed/part_001:1-581  (replicate.run)           *)
(*   "worker"        src/unnamed/part_001:582-1285 (submit-then-poll)      *)
(*   "worker_legacy" src/unnamed/part_001:1287-1697 (submit-then-poll, no  *)
(*                                                validation, always 500)  *)
(* Texts are sequences of one-character strings; error messages are        *)
(* sequences of words, so that String.includes is a membership test.       *)
(***************************************************************************)
EXTENDS Integers, Sequences, FiniteSets, TLC

VARIABLES variant, proxyKey, rq, cv

vars == <<variant, proxyKey, rq, cv>>

\* ---------------------------------------------------------------- bounds
\* Longest message list handed to convertMessagesToPrompt on its own.
MaxMsgs == 4
\* Most status fetches the backend answers before it must report a status
\* other than starting/processing (the code itself has no such bound).
MaxPolls == 3

\* ------------------------------------------------------------- JS values
Undef == [t |-> "undef", v |-> ""]
Str(s) == [t |-> "str", v |-> s]
\* a value inherited from Object.prototype (a function), e.g. obj["constructor"]
Inherited(k) == [t |-> "fn", v |-> k]

\* JS truthiness of a model/key value: undefined and "" are falsy.
Truthy(x) == ~(x.t = "undef" \/ (x.t = "str" /\ x.v = ""))

\* a || b
OrElse(a, b) == IF Truthy(a) THEN a ELSE b

\* the property key a value is converted to in obj[value]
PropertyKey(x) == IF x.t = "undef" THEN "undefined" ELSE x.v

\* Names every plain object inherits from Object.prototype.
ObjectPrototypeKeys == {"constructor", "toString", "valueOf", "hasOwnProperty", "__proto__"}

\* obj[key] for a plain object literal with own properties `own`.
GetProperty(own, key) ==
    IF key \in DOMAIN own THEN Str(own[key])
    ELSE IF key \in ObjectPrototypeKeys THEN Inherited(key)
    ELSE Undef

\* ------------------------------------------------------------- variants
Variants == {"node_legacy", "node", "worker", "worker_legacy"}
IsNode(v) == v \in {"node_legacy", "node"}
IsWorker(v) == v \in {"worker", "worker_legacy"}
\* the handlers that validate required fields and classify errors
IsCurrent(v) == v \in {"node", "worker"}

\* ---------------------------------------------------------------- tables
Llama7b == "meta/llama-2-7b-chat"
Llama70b == "meta/llama-2-70b-chat"

WorkerMappings ==
    [k \in {"gpt-3.5-turbo", "gpt-3.5-turbo-16k", "gpt-4", "gpt-4-turbo",
            "gpt-4-turbo-preview", "gpt-4-32k", "text-davinci-003",
            "text-davinci-002", "text-curie-001", "text-babbage-001",
            "text-ada-001"} |->
        IF k \in {"gpt-4", "gpt-4-turbo", "gpt-4-turbo-preview", "gpt-4-32k"}
        THEN Llama70b ELSE Llama7b]

\* models.json as documented for the Node server
NodeMappings ==
    [k \in {"gpt-3.5-turbo", "gpt-3.5-turbo-16k", "gpt-4", "gpt-4-turbo",
            "gpt-4-32k", "text-davinci-003", "text-davinci-002"} |->
        IF k \in {"gpt-4", "gpt-4-turbo", "gpt-4-32k"}
        THEN Llama70b ELSE Llama7b]

MODEL_MAPPINGS(v) == IF IsNode(v) THEN NodeMappings ELSE WorkerMappings

DEFAULT_MODEL == Str(Llama7b)

modelVersions ==
    [k \in {Llama7b, Llama70b} |->
        IF k = Llama7b THEN "13c3cdee" ELSE "02e509c7"]

\* ------------------------------------------------------------------ text
SystemPrefix == <<"S", "y", "s", "t", "e", "m", ":", " ">>
HumanPrefix == <<"H", "u", "m", "a", "n", ":", " ">>
AssistantPrefix == <<"A", "s", "s", "i", "s", "t", "a", "n", "t", ":", " ">>
TwoNewlines == <<"\n", "\n">>

Whitespace == {" ", "\n", "\t"}

RECURSIVE TrimStart(_)
TrimStart(s) ==
    IF s # <<>> /\ Head(s) \in Whitespace THEN TrimStart(Tail(s)) ELSE s

RECURSIVE TrimEnd(_)
TrimEnd(s) ==
    IF s # <<>> /\ s[Len(s)] \in Whitespace
    THEN TrimEnd(SubSeq(s, 1, Len(s) - 1)) ELSE s

\* a plausible slip: trimStart() in place of trim()
Trim_StartOnly(s) == TrimStart(s)

\* String.prototype.trim
Trim(s) == TrimEnd(TrimStart(s))

\* Array.prototype.join('')
RECURSIVE Join(_)
Join(frags) == IF frags = <<>> THEN <<>> ELSE Head(frags) \o Join(Tail(frags))

\* String.prototype.includes on a message given as words
Includes(msg, word) == \E i \in 1..Len(msg) : msg[i] = word

\* ------------------------------------------------------ pure functions
\* a plausible slip: the user segment is labelled "User: " and a message of
\* any other role is kept as a bare line
PromptSegment_Relabelled(message) ==
    IF message.role = "system" THEN SystemPrefix \o message.content \o TwoNewlines
    ELSE IF message.role = "user"
    THEN <<"U", "s", "e", "r", ":", " ">> \o message.content \o TwoNewlines
    ELSE IF message.role = "assistant" THEN AssistantPrefix \o message.content \o TwoNewlines
    ELSE message.content \o TwoNewlines

\* One iteration of the loop of convertMessagesToPrompt: what `prompt +=`
\* appends for one message (nothing when no branch matches).
PromptSegment(message) ==
    IF message.role = "system" THEN SystemPrefix \o message.content \o TwoNewlines
    ELSE IF message.role = "user" THEN HumanPrefix \o message.content \o TwoNewlines
    ELSE IF message.role = "assistant" THEN AssistantPrefix \o message.content \o TwoNewlines
    ELSE <<>>

\* for (const message of messages) { ... }, from index i with `prompt` so far
RECURSIVE PromptLoop(_, _, _)
PromptLoop(messages, i, prompt) ==
    IF i > Len(messages) THEN prompt
    ELSE PromptLoop(messages, i + 1, prompt \o PromptSegment(messages[i]))

\* what is appended after the loop
PromptCue == AssistantPrefix

convertMessagesToPrompt(messages) == PromptLoop(messages, 1, <<>>) \o PromptCue

\* MODEL_MAPPINGS[model] || DEFAULT_MODEL
ResolveModel(v, model) ==
    OrElse(GetProperty(MODEL_MAPPINGS(v), PropertyKey(model)), DEFAULT_MODEL)

\* a plausible slip: the fallback to the default model's version is missing
getModelVersion_NoFallback(model) ==
    IF model.t = "str" THEN GetProperty(modelVersions, model.v) ELSE Undef

\* modelVersions[model] || modelVersions['meta/llama-2-7b-chat'];
\* a function-valued `model` is keyed by its source text, never a table key.
getModelVersion(model) ==
    OrElse(IF model.t = "str" THEN GetProperty(modelVersions, model.v) ELSE Undef,
           GetProperty(modelVersions, Llama7b))

\* ---------------------------------------------------------- backend data
\* A backend output: a single text ("str", one fragment), an array of
\* fragments ("arr"), or no output at all ("null").
Single(text) == [t |-> "str", frags |-> <<text>>]
Fragments(fs) == [t |-> "arr", frags |-> fs]
NoOutput == [t |-> "null", frags |-> <<>>]

\* Array.isArray(output) ? output.join('') : output
OutputContent(output) ==
    IF output.t = "arr" THEN Single(Join(output.frags)) ELSE output

\* content.trim() throws a TypeError when content is null or undefined
TrimThrows(content) == content.t = "null"

\* --------------------------------------------------------------- replies
\* choices[0] without its text: index, role of the message or delta (none
\* in a text completion), finish_reason; the id is kept by its prefix
NoChoice == [index |-> 0, role |-> "", finish_reason |-> ""]
Choice(role) == [index |-> 0, role |-> role, finish_reason |-> "stop"]

NoUsage == <<>>
\* the usage block written out with three zeros by handleCompletions
ZeroUsage == <<0, 0, 0>>
\* the default of the third parameter of formatAsOpenAIResponse: usage = {}
DefaultUsage == [k \in {} |-> 0]
\* usage.k || 0
UsageOrZero(usage, k) == IF k \in DOMAIN usage /\ usage[k] # 0 THEN usage[k] ELSE 0
UsageBlock(usage) ==
    <<UsageOrZero(usage, "prompt_tokens"), UsageOrZero(usage, "completion_tokens"),
      UsageOrZero(usage, "total_tokens")>>

ErrorReply(status, etype, ecode, message) ==
    [status |-> status, framing |-> "json", object |-> "error",
     message |-> message,
     etype |-> etype, ecode |-> ecode, model |-> Undef, field |-> "none",
     content |-> <<>>, usage |-> NoUsage, done |-> 0,
     id |-> "", choice |-> NoChoice]

PlainReply(status, object, framing) ==
    [status |-> status, framing |-> framing, object |-> object,
     message |-> <<>>,
     etype |-> "", ecode |-> "", model |-> Undef, field |-> "none",
     content |-> <<>>, usage |-> NoUsage, done |-> 0,
     id |-> "", choice |-> NoChoice]

\* a plausible slip: the completion is counted, one token a character
formatAsOpenAIResponse_Counted(output, model) ==
    [status |-> 200, framing |-> "json", object |-> "chat.completion",
     message |-> <<>>,
     etype |-> "", ecode |-> "", model |-> model, field |-> "message",
     content |-> Trim(OutputContent(output).frags[1]),
     usage |-> <<0, Len(Trim(OutputContent(output).frags[1])),
                 Len(Trim(OutputContent(output).frags[1]))>>,
     done |-> 0,
     id |-> "chatcmpl", choice |-> Choice("assistant")]

\* formatAsOpenAIResponse(replicateOutput, model), sent with status 200; the
\* handlers pass two arguments, so usage is its default
formatAsOpenAIResponse(output, model) ==
    [status |-> 200, framing |-> "json", object |-> "chat.completion",
     message |-> <<>>,
     etype |-> "", ecode |-> "", model |-> model, field |-> "message",
     content |-> Trim(OutputContent(output).frags[1]),
     usage |-> UsageBlock(DefaultUsage), done |-> 0,
     id |-> "chatcmpl", choice |-> Choice("assistant")]

\* a plausible slip: the chunk carries the content as it came
StreamReply_Untrimmed(output, model) ==
    [status |-> 200, framing |-> "sse", object |-> "chat.completion.chunk",
     message |-> <<>>,
     etype |-> "", ecode |-> "", model |-> model, field |-> "delta",
     content |-> OutputContent(output).frags[1], usage |-> NoUsage,
     done |-> 1,
     id |-> "chatcmpl", choice |-> Choice("assistant")]

\* the streamResponse object, framed by sendStreamingResponse as one data
\* frame followed by one [DONE] frame
StreamReply(output, model) ==
    [status |-> 200, framing |-> "sse", object |-> "chat.completion.chunk",
     message |-> <<>>,
     etype |-> "", ecode |-> "", model |-> model, field |-> "delta",
     content |-> Trim(OutputContent(output).frags[1]), usage |-> NoUsage,
     done |-> 1,
     id |-> "chatcmpl", choice |-> Choice("assistant")]

\* the response object of handleCompletions
TextReply(output, model) ==
    [status |-> 200, framing |-> "json", object |-> "text_completion",
     message |-> <<>>,
     etype |-> "", ecode |-> "", model |-> model, field |-> "text",
     content |-> Trim(OutputContent(output).frags[1]), usage |-> ZeroUsage,
     done |-> 0,
     id |-> "cmpl", choice |-> Choice("")]

MissingFields ==
    ErrorReply(400, "invalid_request_error", "missing_required_fields",
               <<"Missing", "required", "fields">>)
UpstreamError ==
    ErrorReply(502, "upstream_error", "replicate_error",
               <<"Replicate", "API", "error">>)
InternalError ==
    ErrorReply(500, "server_error", "internal_error",
               <<"Internal", "server", "error">>)
NotFound ==
    ErrorReply(404, "invalid_request_error", "not_found", <<"Not", "found">>)
NotConfigured ==
    ErrorReply(500, "configuration_error", "missing_api_key",
               <<"Proxy", "API", "key", "not", "configured">>)
MissingHeader ==
    ErrorReply(401, "authentication_error", "invalid_api_key",
               <<"Missing", "or", "invalid", "authorization", "header">>)
InvalidApiKey ==
    ErrorReply(401, "authentication_error", "invalid_api_key",
               <<"Invalid", "API", "key">>)

\* error.message && error.message.includes('Replicate')
IsReplicateError(msg) == Includes(msg, "Replicate")

\* The catch block of a handler: the current handlers answer 502 when the
\* message mentions Replicate and 500 otherwise; the legacy ones always 500.
CatchReply(v, msg) ==
    IF IsCurrent(v) /\ IsReplicateError(msg) THEN UpstreamError ELSE InternalError

\* ---------------------------------------------------------------- inputs
NoText == [t |-> "undef", s |-> <<>>]
Text(s) == [t |-> "str", s |-> s]
TextTruthy(x) == x.t = "str" /\ x.s # <<>>

\* body.messages: absent, a number (truthy, not iterable) or a list
NoMessages == [t |-> "undef", list |-> <<>>]
NumberMessages == [t |-> "num", list |-> <<>>]
MessageList(l) == [t |-> "list", list |-> l]
\* !messages is true only for the absent value; [] is an object
MessagesTruthy(m) == m.t # "undef"

Msg(role, content) == [role |-> role, content |-> content]

Methods == {"GET", "POST", "OPTIONS"}
\* "//" is a request target that new URL(target, base) rejects
Paths == {"/health", "/v1/chat/completions", "/v1/completions", "/v1/models",
          "/v1/unknown", "/other", "//"}
\* pathname.startsWith('/v1/')
StartsWithV1(path) ==
    path \in {"/v1/chat/completions", "/v1/completions", "/v1/models", "/v1/unknown"}

\* the Authorization header: absent, or its first seven characters and the rest
NoHeader == [t |-> "undef", prefix |-> "", rest |-> ""]
Header(prefix, rest) == [t |-> "str", prefix |-> prefix, rest |-> rest]
Headers == {NoHeader, Header("Bearer ", "k1"), Header("Bearer ", "bad"),
            Header("Basic k", "1")}
ProxyKeys == {Undef, Str(""), Str("k1")}

ModelInputs == {Undef, Str(""), Str("gpt-4"), Str("gpt-4-turbo-preview"),
                Str("my-model"), Str("constructor")}
MessagesInputs ==
    {NoMessages, NumberMessages, MessageList(<<>>),
     MessageList(<<Msg("user", <<"h", "i">>)>>),
     MessageList(<<Msg("system", <<"b">>), Msg("tool", <<"x">>),
                   Msg("user", <<"h", "i">>)>>)}
PromptInputs == {NoText, Text(<<>>), Text(<<"h", "i">>)}
StreamInputs == {"absent", "true", "false"}

\* body.max_tokens and body.temperature: absent, or a number; the
\* temperature is counted in tenths
NoNum == [t |-> "undef", n |-> 0]
Num(n) == [t |-> "num", n |-> n]
\* the defaults of the destructuring: max_tokens = 500, temperature = 0.7
DefaultMaxTokens == 500
DefaultTemperature == 7
\* a destructuring default applies to an absent (undefined) value only
OrDefault(x, d) == IF x.t = "undef" THEN Num(d) ELSE x
\* a request far above any model's limits, and a temperature of 5.0
MaxTokensInputs == {NoNum, Num(100000)}
TemperatureInputs == {NoNum, Num(50)}

\* a parsed JSON object body
Body(model, messages, prompt, stream) ==
    [model |-> model, messages |-> messages, prompt |-> prompt, stream |-> stream,
     max_tokens |-> NoNum, temperature |-> NoNum]
WithLimits(body, max_tokens, temperature) ==
    [body EXCEPT !.max_tokens = max_tokens, !.temperature = temperature]
NoBody == Body(Undef, NoMessages, NoText, "absent")
ChatBodies ==
    {WithLimits(Body(m, ms, NoText, st), mt, te) :
        m \in ModelInputs, ms \in MessagesInputs, st \in StreamInputs,
        mt \in MaxTokensInputs, te \in TemperatureInputs}
LegacyBodies ==
    {WithLimits(Body(m, NoMessages, p, st), mt, te) :
        m \in ModelInputs, p \in PromptInputs, st \in {"absent", "true"},
        mt \in MaxTokensInputs, te \in TemperatureInputs}

\* what reading and parsing the request body can come to, other than an object
BodyFaults == {"streamError", "badJson", "badJsonEcho", "empty", "null"}

\* backend outputs and jobs
Outputs == {Single(<<" ", "h", "i", " ">>), Single(<<>>),
            Fragments(<<<<"a">>, <<"b", "\n">>>>), NoOutput}
InProgress == {"starting", "processing"}
Job(status, output, error) == [status |-> status, output |-> output, error |-> error]
NoJob == Job("none", NoOutput, "")
Jobs ==
    {Job(st, NoOutput, "") : st \in InProgress \cup {"canceled"}}
    \cup {Job("succeeded", o, "") : o \in Outputs}
    \cup {Job("failed", NoOutput, "boom")}
    \cup {Job("canceled", Single(<<" ", "h", "i", " ">>), "")}

\* result.id: the identifier the backend gives the job it creates for a
\* submission, one per submission; an error body carries none
NoId == <<>>
JobId(r) == <<"job", r>>

\* error messages, as words
FetchFailed == <<"fetch", "failed">>
SdkMessages == {<<"Prediction", "failed:", "boom">>,
                <<"Request", "failed:", "Replicate", "is", "unavailable">>}
NotIterable == <<"messages", "is", "not", "iterable">>
ReadOfUndefined == <<"Cannot", "read", "properties", "of", "undefined">>
SubmitFailed == <<"Replicate", "API", "error:", "500">>
PollFailed == <<"Replicate", "polling", "error:", "500">>
PredictionFailed(detail) == <<"Replicate", "prediction", "failed:", detail>>
\* JSON.parse / request.json() messages; newer engines quote the input
ParseMessages(fault) ==
    IF fault = "badJsonEcho"
    THEN {<<"Unexpected", "token">>,
          <<"Unexpected", "token", "Replicate", "is", "not", "valid", "JSON">>}
    ELSE {<<"Unexpected", "token">>}

\* With several requests in flight the request lines, bodies and backend
\* answers are drawn from these smaller sets.
ConcMethods == {"POST"}
ConcPaths == {"/v1/chat/completions", "/v1/completions", "//"}
ConcHeaders == {NoHeader, Header("Bearer ", "k1")}
ConcChatBodies ==
    {Body(Str("gpt-4"), MessageList(<<Msg("user", <<"h", "i">>)>>), NoText, st) :
        st \in {"absent", "true"}}
ConcLegacyBodies == {Body(Str("gpt-4"), NoMessages, Text(<<"h", "i">>), "absent")}
ConcBodyFaults == {"streamError", "badJson"}
ConcOutputs == {Single(<<" ", "h", "i", " ">>), NoOutput}
ConcJobs ==
    {Job("processing", NoOutput, ""), Job("failed", NoOutput, "boom")}
    \cup {Job("succeeded", o, "") : o \in ConcOutputs}
ConcSdkMessages == {<<"Prediction", "failed:", "boom">>}

Several == Cardinality(DOMAIN rq) > 1
InMethods == IF Several THEN ConcMethods ELSE Methods
InPaths == IF Several THEN ConcPaths ELSE Paths
InHeaders == IF Several THEN ConcHeaders ELSE Headers
InChatBodies == IF Several THEN ConcChatBodies ELSE ChatBodies
InLegacyBodies == IF Several THEN ConcLegacyBodies ELSE LegacyBodies
InBodyFaults == IF Several THEN ConcBodyFaults ELSE BodyFaults
InOutputs == IF Several THEN ConcOutputs ELSE Outputs
InJobs == IF Several THEN ConcJobs ELSE Jobs
InSdkMessages == IF Several THEN ConcSdkMessages ELSE SdkMessages

\* a plausible slip: max_tokens is capped at a model limit
BackendInput_Clamped(prompt, body) ==
    [prompt |-> prompt,
     max_new_tokens |->
        IF OrDefault(body.max_tokens, DefaultMaxTokens).n > 4096 THEN Num(4096)
        ELSE OrDefault(body.max_tokens, DefaultMaxTokens),
     temperature |-> OrDefault(body.temperature, DefaultTemperature)]

\* the `input` object handed to replicate.run / callReplicateAPI
BackendInput(prompt, body) ==
    [prompt |-> prompt,
     max_new_tokens |-> OrDefault(body.max_tokens, DefaultMaxTokens),
     temperature |-> OrDefault(body.temperature, DefaultTemperature)]
NoInput == [prompt |-> NoText, max_new_tokens |-> NoNum, temperature |-> NoNum]

\* ------------------------------------------------------------ the state
NewRequest ==
    [pc |-> "new", method |-> "", path |-> "", handler |-> "none",
     header |-> NoHeader, authed |-> FALSE, body |-> NoBody, replicateModel |-> Undef,
     prompt |-> NoText, input |-> NoInput, version |-> Undef, calls |-> 0,
     waits |-> 0,
     fetches |-> 0, seen |-> <<>>, result |-> NoJob, jobId |-> NoId,
     polledId |-> NoId, badHttp |-> FALSE,
     invoke |-> "none", output |-> NoOutput, fault |-> "none",
     caught |-> <<>>, parsed |-> FALSE, replies |-> <<>>]

CvIdle == [pc |-> "idle", messages |-> <<>>, prompt |-> <<>>]

\* ------------------------------------------------------- authentication
\* a plausible slip: the token is not compared with the key
authenticateApiKey_AnyBearer(header, expectedApiKey) ==
    IF ~Truthy(expectedApiKey)
    THEN [success |-> FALSE, reply |-> NotConfigured]
    ELSE IF header.t = "undef" \/ header.prefix # "Bearer "
    THEN [success |-> FALSE, reply |-> MissingHeader]
    ELSE [success |-> TRUE, reply |-> NotFound]

\* a plausible slip: the header is examined before the configuration
authenticateApiKey_HeaderFirst(header, expectedApiKey) ==
    IF header.t = "undef" \/ header.prefix # "Bearer "
    THEN [success |-> FALSE, reply |-> MissingHeader]
    ELSE IF ~Truthy(expectedApiKey)
    THEN [success |-> FALSE, reply |-> NotConfigured]
    ELSE IF header.rest # expectedApiKey.v
    THEN [success |-> FALSE, reply |-> InvalidApiKey]
    ELSE [success |-> TRUE, reply |-> NotFound]

\* authenticateApiKey: the error reply, or success
authenticateApiKey(header, expectedApiKey) ==
    IF ~Truthy(expectedApiKey)
    THEN [success |-> FALSE, reply |-> NotConfigured]
    ELSE IF header.t = "undef" \/ header.prefix # "Bearer "
    THEN [success |-> FALSE, reply |-> MissingHeader]
    ELSE IF header.rest # expectedApiKey.v
    THEN [success |-> FALSE, reply |-> InvalidApiKey]
    ELSE [success |-> TRUE, reply |-> NotFound]

\* sendJsonResponse / sendStreamingResponse / return new Response(...)
Send(q, reply) == [q EXCEPT !.replies = Append(@, reply), !.pc = "done"]

\* the catch block of a handler, entered with error message msg
Catch(v, q, msg, fault) ==
    Send([q EXCEPT !.caught = msg, !.fault = fault], CatchReply(v, msg))

\* -------------------------------------------------------------- handlers
\* if (!model || !messages) of the current chat handlers
ChatFieldsMissing(body) == ~Truthy(body.model) \/ ~MessagesTruthy(body.messages)

\* if (!model || !prompt) of the current legacy handlers
LegacyFieldsMissing(body) == ~Truthy(body.model) \/ ~TextTruthy(body.prompt)

\* a plausible slip: a processing job is no longer waited for
LoopContinues_StartingOnly(status) == status = "starting"

\* while (result.status === 'starting' || result.status === 'processing')
LoopContinues(status) == status = "starting" \/ status = "processing"

\* if (!response.ok) throw / if (!pollResponse.ok) throw: the legacy Worker
\* checks the submission response only
ChecksPollStatus(v) == v = "worker"

\* a plausible slip: the legacy handler honours the stream flag as well
SuccessReply_LegacyStreams(handler, stream, output, model) ==
    IF stream = "true" THEN StreamReply(output, model)
    ELSE IF handler = "legacy" THEN TextReply(output, model)
    ELSE formatAsOpenAIResponse(output, model)

\* the success envelope of a handler for a backend output
SuccessReply(handler, stream, output, model) ==
    IF handler = "legacy" THEN TextReply(output, model)
    ELSE IF stream = "true" THEN StreamReply(output, model)
    ELSE formatAsOpenAIResponse(output, model)

\* replicate.run(...) / callReplicateAPI(...) is entered: one submission
BeginInvoke(v, q, replicateModel, prompt) ==
    [q EXCEPT !.replicateModel = replicateModel, !.prompt = prompt,
              !.input = BackendInput(prompt, q.body),
              !.version = IF IsWorker(v) THEN getModelVersion(replicateModel) ELSE Undef,
              !.calls = @ + 1, !.invoke = "pending",
              !.pc = IF IsWorker(v) THEN "submit" ELSE "run"]

\* handleChatCompletions from the parsed body to the backend call
ChatStep(v, q, body) ==
    IF IsCurrent(v) /\ ChatFieldsMissing(body) THEN Send(q, MissingFields)
    ELSE IF body.messages.t # "list"
    THEN Catch(v, [q EXCEPT !.replicateModel = ResolveModel(v, body.model)],
               NotIterable, "internal")
    ELSE BeginInvoke(v, q, ResolveModel(v, body.model),
                     Text(convertMessagesToPrompt(body.messages.list)))

\* a plausible slip: the prompt is compiled as if it were one user message
LegacyStep_Compiled(v, q, body) ==
    IF IsCurrent(v) /\ LegacyFieldsMissing(body) THEN Send(q, MissingFields)
    ELSE IF v = "node_legacy" /\ body.prompt.t = "undef"
    THEN Catch(v, [q EXCEPT !.replicateModel = ResolveModel(v, body.model)],
               ReadOfUndefined, "internal")
    ELSE BeginInvoke(v, q, ResolveModel(v, body.model),
                     Text(convertMessagesToPrompt(<<Msg("user", body.prompt.s)>>)))

\* handleCompletions from the parsed body to the backend call; src/index.js
\* logs prompt.substring(...) before the call, the legacy Worker does not
LegacyStep(v, q, body) ==
    IF IsCurrent(v) /\ LegacyFieldsMissing(body) THEN Send(q, MissingFields)
    ELSE IF v = "node_legacy" /\ body.prompt.t = "undef"
    THEN Catch(v, [q EXCEPT !.replicateModel = ResolveModel(v, body.model)],
               ReadOfUndefined, "internal")
    ELSE BeginInvoke(v, q, ResolveModel(v, body.model), body.prompt)

HandlerStep(v, q, body) ==
    IF q.handler = "chat"
    THEN ChatStep(v, [q EXCEPT !.body = body, !.parsed = TRUE], body)
    ELSE LegacyStep(v, [q EXCEPT !.body = body, !.parsed = TRUE], body)

\* a plausible slip: the resolved backend model is echoed
Finish_EchoBackend(v, q, output) ==
    IF TrimThrows(OutputContent(output))
    THEN Catch(v, [q EXCEPT !.invoke = "returned", !.output = output],
               ReadOfUndefined, "internal")
    ELSE Send([q EXCEPT !.invoke = "returned", !.output = output],
              SuccessReply(q.handler, q.body.stream, output, q.replicateModel))

\* the backend call returned `output`: format and send
Finish(v, q, output) ==
    IF TrimThrows(OutputContent(output))
    THEN Catch(v, [q EXCEPT !.invoke = "returned", !.output = output],
               ReadOfUndefined, "internal")
    ELSE Send([q EXCEPT !.invoke = "returned", !.output = output],
              SuccessReply(q.handler, q.body.stream, output, q.body.model))

\* a plausible slip: a failed backend call is made once more
InvokeThrows_Retries(v, q, msg) ==
    IF q.calls < 2
    THEN [q EXCEPT !.calls = @ + 1, !.pc = IF IsWorker(v) THEN "submit" ELSE "run"]
    ELSE Catch(v, [q EXCEPT !.invoke = "threw"], msg, "backend")

\* the backend call threw msg
InvokeThrows(v, q, msg) == Catch(v, [q EXCEPT !.invoke = "threw"], msg, "backend")

\* a plausible slip: a streaming request is sent a frame on every status
\* seen, the first before the job has finished
AfterResult_StreamsEarly(v, q, job) ==
    LET q1 == [q EXCEPT !.result = job, !.seen = Append(@, job.status)]
    IN  IF LoopContinues(job.status)
        THEN [q1 EXCEPT !.pc = "wait",
                        !.replies = IF q.body.stream = "true"
                                    THEN Append(@, StreamReply(Single(<<>>), q.body.model))
                                    ELSE @]
        ELSE IF job.status = "failed"
        THEN InvokeThrows(v, q1, PredictionFailed(job.error))
        ELSE Finish(v, q1, job.output)

\* a plausible slip: the loop gives up after its second status fetch
AfterResult_GivesUp(v, q, job) ==
    LET q1 == [q EXCEPT !.result = job, !.seen = Append(@, job.status)]
    IN  IF LoopContinues(job.status) /\ q.fetches >= 2
        THEN InvokeThrows(v, q1, <<"Replicate", "polling", "timed", "out">>)
        ELSE IF LoopContinues(job.status) THEN [q1 EXCEPT !.pc = "wait"]
        ELSE IF job.status = "failed"
        THEN InvokeThrows(v, q1, PredictionFailed(job.error))
        ELSE Finish(v, q1, job.output)

\* a plausible slip: the output is read from the job state held before the
\* last fetch
AfterResult_StaleOutput(v, q, job) ==
    LET q1 == [q EXCEPT !.result = job, !.seen = Append(@, job.status)]
    IN  IF LoopContinues(job.status) THEN [q1 EXCEPT !.pc = "wait"]
        ELSE IF job.status = "failed"
        THEN InvokeThrows(v, q1, PredictionFailed(job.error))
        ELSE Finish(v, q1, q.result.output)

\* callReplicateAPI after `result` was assigned a job state
AfterResult(v, q, job) ==
    LET q1 == [q EXCEPT !.result = job, !.seen = Append(@, job.status)]
    IN  IF LoopContinues(job.status) THEN [q1 EXCEPT !.pc = "wait"]
        ELSE IF job.status = "failed"
        THEN InvokeThrows(v, q1, PredictionFailed(job.error))
        ELSE Finish(v, q1, job.output)

\* a plausible slip: the /v1/ key check is made before the health route
Route_AuthBeforeHealth(v, q0, method, path, header, key) ==
    LET q == [q0 EXCEPT !.method = method, !.path = path, !.header = header]
        auth == authenticateApiKey(header, key)
    IN  IF v = "node" /\ path = "//"
        THEN [q EXCEPT !.pc = "crashed"]
        ELSE IF method = "OPTIONS"
        THEN Send(q, PlainReply(200, "preflight", "none"))
        ELSE IF ~auth.success THEN Send(q, auth.reply)
        ELSE IF path = "/health" /\ method = "GET"
        THEN Send(q, PlainReply(200, "health", "json"))
        ELSE IF ~StartsWithV1(path) THEN Send(q, NotFound)
        ELSE IF path = "/v1/chat/completions" /\ method = "POST"
        THEN [q EXCEPT !.authed = TRUE, !.handler = "chat", !.pc = "body"]
        ELSE IF path = "/v1/completions" /\ method = "POST"
        THEN [q EXCEPT !.authed = TRUE, !.handler = "legacy", !.pc = "body"]
        ELSE IF path = "/v1/models" /\ method = "GET"
        THEN Send([q EXCEPT !.authed = TRUE], PlainReply(200, "list", "json"))
        ELSE Send([q EXCEPT !.authed = TRUE], NotFound)

\* handleRequest / fetch from the request line to the first await: the
\* preflight answer, the health route, the /v1/ key check, the routing
Route(v, q0, method, path, header, key) ==
    LET q == [q0 EXCEPT !.method = method, !.path = path, !.header = header]
        auth == authenticateApiKey(header, key)
    IN  IF v = "node" /\ path = "//"
        THEN [q EXCEPT !.pc = "crashed"]
        ELSE IF method = "OPTIONS"
        THEN Send(q, PlainReply(200, "preflight", "none"))
        ELSE IF path = "/health" /\ method = "GET"
        THEN Send(q, PlainReply(200, "health", "json"))
        ELSE IF ~StartsWithV1(path) THEN Send(q, NotFound)
        ELSE IF ~auth.success THEN Send(q, auth.reply)
        ELSE IF path = "/v1/chat/completions" /\ method = "POST"
        THEN [q EXCEPT !.authed = TRUE, !.handler = "chat", !.pc = "body"]
        ELSE IF path = "/v1/completions" /\ method = "POST"
        THEN [q EXCEPT !.authed = TRUE, !.handler = "legacy", !.pc = "body"]
        ELSE IF path = "/v1/models" /\ method = "GET"
        THEN Send([q EXCEPT !.authed = TRUE], PlainReply(200, "list", "json"))
        ELSE Send([q EXCEPT !.authed = TRUE], NotFound)

\* fetch(`.../v1/predictions/${result.id}`): the job a status fetch
\* asks for
PollTarget(q) == q.jobId

\* an exception leaves the request listener of http.createServer: no
\* 'uncaughtException' handler is installed, so the process exits and every
\* request it has not answered yet is left without a response
ProcessExit(reqs) ==
    [s \in DOMAIN reqs |->
        IF reqs[s].pc = "done" THEN reqs[s] ELSE [reqs[s] EXCEPT !.pc = "crashed"]]

\* --------------------------------------------------------------- actions
\* handleRequest / fetch: a request arrives
HandleRequest(r) ==
    /\ rq[r].pc = "new"
    /\ \E method \in InMethods, path \in InPaths, header \in InHeaders :
        LET q == Route(variant, rq[r], method, path, header, proxyKey)
        IN  rq' = IF q.pc = "crashed" THEN ProcessExit([rq EXCEPT ![r] = q])
                  ELSE [rq EXCEPT ![r] = q]
    /\ UNCHANGED <<variant, proxyKey, cv>>

\* what the handler does when the body cannot be read as a JSON object:
\* the Node parser turns an empty body into {}, src/index.js never settles
\* on a stream error, everything else reaches the catch block
BodyFault(v, q, fault, msg) ==
    IF fault = "streamError"
    THEN IF v = "node_legacy" THEN [q EXCEPT !.pc = "hung"]
         ELSE Catch(v, q, <<"aborted">>, "internal")
    ELSE IF fault = "empty" /\ IsNode(v)
    THEN HandlerStep(v, q, NoBody)
    ELSE IF fault = "null"
    THEN Catch(v, q, ReadOfUndefined, "internal")
    ELSE Catch(v, q, msg, "internal")

\* await parseRequestBody(req) / await request.json() settles with a fault
BodyFails(r) ==
    /\ rq[r].pc = "body"
    /\ \E fault \in InBodyFaults : \E msg \in ParseMessages(fault) :
        rq' = [rq EXCEPT ![r] = BodyFault(variant, @, fault, msg)]
    /\ UNCHANGED <<variant, proxyKey, cv>>

\* the body parses to an object; the handler runs up to the backend call
BodyParsed(r) ==
    /\ rq[r].pc = "body"
    /\ \E body \in (IF rq[r].handler = "chat" THEN InChatBodies ELSE InLegacyBodies) :
        rq' = [rq EXCEPT ![r] = HandlerStep(variant, @, body)]
    /\ UNCHANGED <<variant, proxyKey, cv>>

\* Node: await replicate.run(...) returns an output
RunReturns(r) ==
    /\ rq[r].pc = "run"
    /\ \E output \in InOutputs : rq' = [rq EXCEPT ![r] = Finish(variant, @, output)]
    /\ UNCHANGED <<variant, proxyKey, cv>>

\* Node: await replicate.run(...) raises
RunRaises(r) ==
    /\ rq[r].pc = "run"
    /\ \E msg \in InSdkMessages : rq' = [rq EXCEPT ![r] = InvokeThrows(variant, @, msg)]
    /\ UNCHANGED <<variant, proxyKey, cv>>

\* Worker: the submission fetch raises
SubmitRaises(r) ==
    /\ rq[r].pc = "submit"
    /\ rq' = [rq EXCEPT ![r] = InvokeThrows(variant, @, FetchFailed)]
    /\ UNCHANGED <<variant, proxyKey, cv>>

\* Worker: the submission is answered with a non-2xx status
SubmitRejected(r) ==
    /\ rq[r].pc = "submit"
    /\ rq' = [rq EXCEPT ![r] =
            InvokeThrows(variant, [@ EXCEPT !.badHttp = TRUE], SubmitFailed)]
    /\ UNCHANGED <<variant, proxyKey, cv>>

\* Worker: the submission is answered 2xx with the created job
SubmitAccepted(r) ==
    /\ rq[r].pc = "submit"
    /\ \E job \in InJobs :
        rq' = [rq EXCEPT ![r] =
            AfterResult(variant, [@ EXCEPT !.jobId = JobId(r)], job)]
    /\ UNCHANGED <<variant, proxyKey, cv>>

\* Worker: the one-second timer fires and the status fetch is issued
Wait(r) ==
    /\ rq[r].pc = "wait"
    /\ rq' = [rq EXCEPT ![r] = [@ EXCEPT !.waits = @ + 1, !.fetches = @ + 1,
                                         !.polledId = PollTarget(rq[r]),
                                         !.pc = "poll"]]
    /\ UNCHANGED <<variant, proxyKey, cv>>

\* Worker: the status fetch raises
PollRaises(r) ==
    /\ rq[r].pc = "poll"
    /\ rq' = [rq EXCEPT ![r] = InvokeThrows(variant, @, FetchFailed)]
    /\ UNCHANGED <<variant, proxyKey, cv>>

\* Worker: the status fetch is answered with a non-2xx status.  Without the
\* check the body of the error response is parsed and becomes `result`: it
\* is either not JSON, or an object that carries no job status.
PollRejected(r) ==
    /\ rq[r].pc = "poll"
    /\ \E parses \in BOOLEAN :
        rq' = [rq EXCEPT ![r] =
            IF ChecksPollStatus(variant)
            THEN InvokeThrows(variant, [@ EXCEPT !.badHttp = TRUE], PollFailed)
            ELSE IF parses
            THEN AfterResult(variant, [@ EXCEPT !.badHttp = TRUE, !.jobId = NoId],
                             NoJob)
            ELSE InvokeThrows(variant, [@ EXCEPT !.badHttp = TRUE],
                              <<"Unexpected", "token">>)]
    /\ UNCHANGED <<variant, proxyKey, cv>>

\* Worker: the status fetch is answered 2xx with the job's state
PollAnswered(r) ==
    /\ rq[r].pc = "poll"
    /\ \E job \in InJobs :
        /\ job.status \in InProgress => rq[r].fetches < MaxPolls
        /\ rq' = [rq EXCEPT ![r] =
                AfterResult(variant, [@ EXCEPT !.jobId = rq[r].polledId], job)]
    /\ UNCHANGED <<variant, proxyKey, cv>>

ServerNext ==
    \E r \in DOMAIN rq :
        \/ HandleRequest(r)
        \/ BodyFails(r)
        \/ BodyParsed(r)
        \/ RunReturns(r)
        \/ RunRaises(r)
        \/ SubmitRaises(r)
        \/ SubmitRejected(r)
        \/ SubmitAccepted(r)
        \/ Wait(r)
        \/ PollRaises(r)
        \/ PollRejected(r)
        \/ PollAnswered(r)

Init ==
    /\ variant \in Variants
    /\ proxyKey \in ProxyKeys
    /\ rq = [r \in {"r1"} |-> NewRequest]
    /\ cv = CvIdle

Next == ServerNext

Spec == Init /\ [][Next]_vars

\* ------------------------------------------- convertMessagesToPrompt alone
Roles == {"system", "user", "assistant", "tool"}
Contents == {<<>>, <<"h", "i">>}
Messages == {Msg(role, content) : role \in Roles, content \in Contents}
MessageLists == UNION {[1..n -> Messages] : n \in 0..MaxMsgs}

InitCompile ==
    /\ variant = "worker"
    /\ proxyKey = Str("k1")
    /\ rq = <<>>
    /\ \E l \in MessageLists : cv = [pc |-> "ready", messages |-> l, prompt |-> <<>>]

\* const prompt = convertMessagesToPrompt(messages)
Compile ==
    /\ cv.pc = "ready"
    /\ cv' = [cv EXCEPT !.pc = "done", !.prompt = convertMessagesToPrompt(cv.messages)]
    /\ UNCHANGED <<variant, proxyKey, rq>>

NextCompile == Compile

SpecCompile == InitCompile /\ [][NextCompile]_vars

\* --------------------------------------------- the success envelopes alone
MaxText == 2
MaxFrags == 2
Chars == {"a", " "}
Texts == UNION {[1..n -> Chars] : n \in 0..MaxText}
FragmentLists == UNION {[1..n -> Texts] : n \in 0..MaxFrags}
ThreeFragments == Fragments(<<<<"a">>, <<"b">>, <<"c">>>>)
PaddedText ==
    Single(<<" ", " ", "h", "i", " ", "t", "h", "e", "r", "e", " ", " ">>)
FormatOutputs ==
    {Single(t) : t \in Texts} \cup {Fragments(fs) : fs \in FragmentLists}
    \cup {ThreeFragments, PaddedText}
NoReply == PlainReply(0, "none", "none")

InitFormat ==
    /\ variant = "worker"
    /\ proxyKey = Str("k1")
    /\ rq = <<>>
    /\ \E handler \in {"chat", "legacy"}, stream \in StreamInputs,
          output \in FormatOutputs :
        cv = [pc |-> "unformatted", handler |-> handler, stream |-> stream,
              output |-> output, reply |-> NoReply]

\* the handler builds its success envelope from the backend output
Format ==
    /\ cv.pc = "unformatted"
    /\ cv' = [cv EXCEPT !.pc = "formatted",
                        !.reply = SuccessReply(cv.handler, cv.stream, cv.output,
                                               Str("gpt-4"))]
    /\ UNCHANGED <<variant, proxyKey, rq>>

NextFormat == Format

SpecFormat == InitFormat /\ [][NextFormat]_vars

\* ------------------------------------------------- two requests in flight
InitConc ==
    /\ variant \in Variants
    /\ proxyKey = Str("k1")
    /\ rq = [r \in {"r1", "r2"} |-> NewRequest]
    /\ cv = CvIdle

SpecConc == InitConc /\ [][Next]_vars

\* ------------------------------------------------- one request, scheduled
\* The event loop runs every callback that is ready, and the awaits of the
\* body, of the backend call, of the timer and of the status fetch settle:
\* a step that stays possible is eventually taken.
SpecLive == Init /\ [][Next]_vars /\ WF_vars(Next)

\* ------------------------------------- one request given to both servers
\* The same authenticated request is handled by a Node server (rq.node) and
\* by the Worker of the same generation (rq.worker), and the backend has the
\* same outcome for both: cv holds the request and the outcome, `variant`
\* is the Node server's.
ServerOf(s) ==
    IF s = "node" THEN variant
    ELSE IF variant = "node" THEN "worker" ELSE "worker_legacy"

ContractBodies(path, fault) ==
    IF fault # "none" THEN {NoBody}
    ELSE IF path = "/v1/chat/completions" THEN ConcChatBodies
    ELSE ConcLegacyBodies
\* the backend's answer: a final output, or a failed prediction
ContractOutcomes ==
    {Job("succeeded", o, "") : o \in Outputs} \cup {Job("failed", NoOutput, "boom")}

InitContract ==
    /\ variant \in {"node", "node_legacy"}
    /\ proxyKey = Str("k1")
    /\ rq = [s \in {"node", "worker"} |-> NewRequest]
    /\ \E path \in {"/v1/chat/completions", "/v1/completions"},
          fault \in {"none", "empty", "badJson"},
          outcome \in ContractOutcomes, early \in BOOLEAN :
        \E body \in ContractBodies(path, fault) :
            cv = [pc |-> "contract", path |-> path, fault |-> fault,
                  body |-> body, outcome |-> outcome, early |-> early]

\* the request arrives at server s with the configured key
ContractArrive(s) ==
    /\ rq[s].pc = "new"
    /\ rq' = [rq EXCEPT ![s] = Route(ServerOf(s), @, "POST", cv.path,
                                     Header("Bearer ", "k1"), proxyKey)]
    /\ UNCHANGED <<variant, proxyKey, cv>>

\* the body is read and the handler runs up to the backend call
ContractBody(s) ==
    /\ rq[s].pc = "body"
    /\ rq' = [rq EXCEPT ![s] =
            IF cv.fault = "none" THEN HandlerStep(ServerOf(s), @, cv.body)
            ELSE BodyFault(ServerOf(s), @, cv.fault, <<"Unexpected", "token">>)]
    /\ UNCHANGED <<variant, proxyKey, cv>>

\* Node: await replicate.run(...) returns the output, or raises what the
\* client library raises for a failed prediction
ContractRun(s) ==
    /\ rq[s].pc = "run"
    /\ \E msg \in SdkMessages :
        rq' = [rq EXCEPT ![s] =
            IF cv.outcome.status = "succeeded"
            THEN Finish(ServerOf(s), @, cv.outcome.output)
            ELSE InvokeThrows(ServerOf(s), @, msg)]
    /\ UNCHANGED <<variant, proxyKey, cv>>

\* Worker: the submission is accepted; the job is already final, or starting
ContractSubmit(s) ==
    /\ rq[s].pc = "submit"
    /\ rq' = [rq EXCEPT ![s] =
            AfterResult(ServerOf(s), [@ EXCEPT !.jobId = JobId(s)],
                        IF cv.early THEN cv.outcome
                        ELSE Job("starting", NoOutput, ""))]
    /\ UNCHANGED <<variant, proxyKey, cv>>

\* Worker: the one-second timer fires and the status fetch is issued
ContractWait(s) ==
    /\ rq[s].pc = "wait"
    /\ rq' = [rq EXCEPT ![s] = [@ EXCEPT !.waits = @ + 1, !.fetches = @ + 1,
                                         !.polledId = PollTarget(rq[s]),
                                         !.pc = "poll"]]
    /\ UNCHANGED <<variant, proxyKey, cv>>

\* Worker: the status fetch reports the job's final state
ContractPoll(s) ==
    /\ rq[s].pc = "poll"
    /\ rq' = [rq EXCEPT ![s] =
            AfterResult(ServerOf(s), [@ EXCEPT !.jobId = rq[s].polledId],
                        cv.outcome)]
    /\ UNCHANGED <<variant, proxyKey, cv>>

NextContract ==
    \E s \in DOMAIN rq :
        \/ ContractArrive(s)
        \/ ContractBody(s)
        \/ ContractRun(s)
        \/ ContractSubmit(s)
        \/ ContractWait(s)
        \/ ContractPoll(s)

SpecContract == InitContract /\ [][NextContract]_vars

\* ================================================================ claims
Reqs == DOMAIN rq
Done(r) == rq[r].pc = "done"
LastReply(r) == rq[r].replies[Len(rq[r].replies)]
IsSuccess(reply) ==
    reply.object \in {"chat.completion", "chat.completion.chunk", "text_completion"}

\* the body was parsed and a required field is absent from it
LacksRequired(r) ==
    /\ rq[r].parsed
    /\ \/ rq[r].body.model = Undef
       \/ rq[r].handler = "chat" /\ rq[r].body.messages = NoMessages
       \/ rq[r].handler = "legacy" /\ rq[r].body.prompt = NoText

\* C1: a chat request without model or messages, and a legacy request
\* without model or prompt, is answered 400 invalid_request_error /
\* missing_required_fields and no backend call is made for it.
C1_MissingFieldsRejected ==
    \A r \in Reqs :
        LacksRequired(r) => rq[r].calls = 0 /\ rq[r].replies = <<MissingFields>>

\* the body was parsed and a required field is present but empty
HasEmptyRequired(r) ==
    /\ rq[r].parsed
    /\ \/ rq[r].body.model = Str("")
       \/ rq[r].handler = "chat" /\ rq[r].body.messages = MessageList(<<>>)
       \/ rq[r].handler = "legacy" /\ rq[r].body.prompt = Text(<<>>)

\* C2: a request whose model is the empty string, whose messages is the
\* empty list or whose prompt is the empty string is answered 400
\* missing_required_fields and never reaches the backend.
C2_EmptyValuesRejected ==
    \A r \in Reqs :
        HasEmptyRequired(r) => rq[r].calls = 0 /\ rq[r].replies = <<MissingFields>>

\* C3: whenever a backend call was made, the backend model used is the
\* mapped value when the inbound identifier is a key of the mapping and
\* the configured default for every other identifier.
C3_ResolutionTotal ==
    \A r \in Reqs :
        rq[r].calls > 0 =>
            LET key == PropertyKey(rq[r].body.model)
                table == MODEL_MAPPINGS(variant)
            IN  rq[r].replicateModel =
                    IF rq[r].body.model.t = "str" /\ key \in DOMAIN table
                    THEN Str(table[key]) ELSE DEFAULT_MODEL

\* C4: the model field of every success envelope (chat completion, chunk,
\* text completion) is the inbound model identifier, not the backend one.
C4_ModelEchoed ==
    \A r \in Reqs : \A i \in 1..Len(rq[r].replies) :
        IsSuccess(rq[r].replies[i]) => rq[r].replies[i].model = rq[r].body.model

\* C4 witness: a success envelope for an unmapped identifier, resolved to
\* the default backend model, that carries the inbound identifier.
C4_Witness ==
    \E r \in Reqs :
        /\ Done(r) /\ IsSuccess(LastReply(r))
        /\ rq[r].body.model = Str("my-model")
        /\ rq[r].replicateModel = DEFAULT_MODEL
        /\ LastReply(r).model = Str("my-model")

\* C5: a failure of the backend call is answered 502 upstream_error /
\* replicate_error and every other fault during processing is answered
\* 500 server_error / internal_error, never the other way round.
C5_Classification ==
    \A r \in Reqs :
        /\ rq[r].fault = "backend" => rq[r].replies = <<UpstreamError>>
        /\ rq[r].fault = "internal" => rq[r].replies = <<InternalError>>

ErrorTaxonomy ==
    {MissingFields, NotConfigured, MissingHeader, InvalidApiKey, UpstreamError,
     InternalError, NotFound}

\* C6: no request ends with an uncaught exception or without a response;
\* a request that ended has exactly one response, a fault gives an error
\* envelope of the taxonomy, and an error envelope never has status 200.
C6_NoFailureEscapes ==
    \A r \in Reqs :
        /\ rq[r].pc \notin {"crashed", "hung"}
        /\ Len(rq[r].replies) <= 1
        /\ Done(r) =>
            /\ Len(rq[r].replies) = 1
            /\ rq[r].fault # "none" => LastReply(r) \in ErrorTaxonomy
            /\ LastReply(r).object = "error" =>
                LastReply(r) \in ErrorTaxonomy /\ LastReply(r).status # 200

CountInProgress(seen) == Cardinality({i \in 1..Len(seen) : seen[i] \in InProgress})

\* C7: in callReplicateAPI the number of waits equals the number of status
\* fetches equals the number of starting/processing statuses observed (one
\* less while the wait for the last such status is pending), and for the
\* statuses starting, processing, succeeded with output X the call returns
\* X after exactly 2 waits.
C7_PollLoopCounts ==
    \A r \in Reqs :
        /\ rq[r].waits = rq[r].fetches
        /\ rq[r].pc \in {"poll", "done"} =>
            rq[r].waits = CountInProgress(rq[r].seen)
        /\ rq[r].pc = "wait" => rq[r].waits + 1 = CountInProgress(rq[r].seen)
        /\ rq[r].seen = <<"starting", "processing", "succeeded">> =>
            /\ rq[r].waits = 2
            /\ rq[r].invoke = "returned"
            /\ rq[r].output = rq[r].result.output

\* C7 witness: the job was seen starting, then processing, then succeeded
\* with an output, which the call returned after two waits.
C7_Witness ==
    \E r \in Reqs :
        /\ Done(r)
        /\ rq[r].seen = <<"starting", "processing", "succeeded">>
        /\ rq[r].waits = 2 /\ rq[r].fetches = 2
        /\ rq[r].output = Single(<<" ", "h", "i", " ">>)
        /\ IsSuccess(LastReply(r))

\* C8: when the job ends failed with an error detail, callReplicateAPI
\* fails, the handler answers 502 upstream_error / replicate_error, and the
\* detail is not part of the response body.
C8_FailedJobIs502 ==
    \A r \in Reqs :
        (Done(r) /\ rq[r].result.status = "failed") =>
            /\ rq[r].invoke = "threw"
            /\ rq[r].replies = <<UpstreamError>>
            /\ ~Includes(LastReply(r).message, rq[r].result.error)

\* C9: after a non-2xx answer to the submission or to a status fetch the
\* call has failed: it returned no output and the request is over.
C9_NonOkIsFatal ==
    \A r \in Reqs :
        rq[r].badHttp => rq[r].invoke = "threw" /\ Done(r) /\ ~IsSuccess(LastReply(r))

\* the segment the claim gives for one message
ClaimedSegment(m) ==
    CASE m.role = "system" ->
            <<"S", "y", "s", "t", "e", "m", ":", " ">> \o m.content \o <<"\n", "\n">>
      [] m.role = "user" ->
            <<"H", "u", "m", "a", "n", ":", " ">> \o m.content \o <<"\n", "\n">>
      [] m.role = "assistant" ->
            <<"A", "s", "s", "i", "s", "t", "a", "n", "t", ":", " ">> \o m.content
                \o <<"\n", "\n">>
      [] OTHER -> <<>>

RECURSIVE ClaimedBody(_)
ClaimedBody(l) ==
    IF l = <<>> THEN <<>> ELSE ClaimedSegment(Head(l)) \o ClaimedBody(Tail(l))

ClaimedCue == <<"A", "s", "s", "i", "s", "t", "a", "n", "t", ":", " ">>

KnownRole(m) == m.role \in {"system", "user", "assistant"}

\* C10: the prompt is the in-order concatenation of one segment per message
\* ("System: ", "Human: " or "Assistant: ", the content, two newlines; nothing
\* for another role) followed by "Assistant: "; it ends with "Assistant: ",
\* and it is the prompt of the same list without its unknown-role messages.
C10_PromptIsConcatenation ==
    cv.pc = "done" =>
        /\ cv.prompt = ClaimedBody(cv.messages) \o ClaimedCue
        /\ Len(cv.prompt) >= Len(ClaimedCue)
        /\ SubSeq(cv.prompt, Len(cv.prompt) - Len(ClaimedCue) + 1, Len(cv.prompt))
              = ClaimedCue
        /\ cv.prompt = ClaimedBody(SelectSeq(cv.messages, KnownRole)) \o ClaimedCue

\* C10 witness: a compiled list with a system, a user, an unknown-role and
\* an assistant message, in that order.
C10_Witness ==
    /\ cv.pc = "done"
    /\ Len(cv.messages) = 4
    /\ cv.messages[1] = Msg("system", <<"h", "i">>)
    /\ cv.messages[2] = Msg("user", <<"h", "i">>)
    /\ cv.messages[3] = Msg("tool", <<"h", "i">>)
    /\ cv.messages[4] = Msg("assistant", <<>>)
    /\ Len(cv.prompt) = 10 + 2 + 9 + 2 + 13 + 11

\* the text between the first and the last character that is not whitespace
Stripped(s) ==
    LET kept == {i \in 1..Len(s) : s[i] \notin {" ", "\n", "\t"}}
    IN  IF kept = {} THEN <<>>
        ELSE SubSeq(s, CHOOSE i \in kept : \A j \in kept : i <= j,
                       CHOOSE i \in kept : \A j \in kept : j <= i)

\* the fragments from the i-th on, one after the other
RECURSIVE InOrder(_, _)
InOrder(frags, i) ==
    IF i > Len(frags) THEN <<>> ELSE frags[i] \o InOrder(frags, i + 1)

\* C11: the content of a success envelope is the backend output itself when
\* it is one text, or its fragments one after the other with nothing between
\* them when it is a sequence, without the leading and trailing whitespace;
\* the same for the chat, the chunk and the legacy text envelope.
C11_OutputNormalized ==
    cv.pc = "formatted" =>
        /\ cv.reply.field \in {"message", "delta", "text"}
        /\ cv.reply.content =
            Stripped(IF cv.output.t = "arr" THEN InOrder(cv.output.frags, 1)
                     ELSE cv.output.frags[1])

C11_Witness ==
    /\ cv.pc = "formatted"
    /\ cv.reply.field = "delta"
    /\ cv.output = Fragments(<<<<"a">>, <<"b">>, <<"c">>>>)
    /\ cv.reply.content = <<"a", "b", "c">>

\* the request is between its routing and the end of its backend call
AwaitingBackend(r) == rq[r].pc \in {"body", "run", "submit", "wait", "poll"}

\* the frames answered so far that are event-stream framed
StreamFrames(r) ==
    {i \in 1..Len(rq[r].replies) : rq[r].replies[i].framing = "sse"}

\* C12: for a chat request with the stream flag set nothing is emitted while
\* the backend call is under way; once it has returned from a job that is no
\* longer starting or processing, exactly one chat.completion.chunk frame
\* with the whole trimmed output is emitted, followed by exactly one [DONE]
\* frame, and no second chunk frame ever.
C12_StreamingIsFramingOnly ==
    \A r \in Reqs :
        /\ AwaitingBackend(r) => rq[r].replies = <<>>
        /\ Cardinality(StreamFrames(r)) <= 1
        /\ \A i \in StreamFrames(r) :
            /\ rq[r].handler = "chat" /\ rq[r].body.stream = "true"
            /\ Len(rq[r].replies) = 1
            /\ rq[r].invoke = "returned"
            /\ IsWorker(variant) =>
                rq[r].seen # <<>> /\ rq[r].seen[Len(rq[r].seen)] \notin InProgress
            /\ rq[r].replies[i].object = "chat.completion.chunk"
            /\ rq[r].replies[i].field = "delta"
            /\ rq[r].replies[i].done = 1
            /\ rq[r].replies[i].content =
                Stripped(InOrder(rq[r].output.frags, 1))

C12_Witness ==
    \E r \in Reqs :
        /\ IsWorker(variant) /\ Done(r)
        /\ rq[r].body.stream = "true" /\ rq[r].waits >= 1
        /\ StreamFrames(r) = {1}
        /\ rq[r].output = Fragments(<<<<"a">>, <<"b", "\n">>>>)
        /\ rq[r].replies[1].content = <<"a", "b">>

\* C13: the success envelope is fixed by the endpoint and the stream flag:
\* chat without the flag or with it false gives chat.completion as JSON,
\* chat with the flag set gives chat.completion.chunk as an event stream,
\* the legacy endpoint gives text_completion as JSON whatever the flag.
C13_ShapeSelection ==
    \A r \in Reqs :
        Done(r) /\ IsSuccess(LastReply(r)) =>
            /\ rq[r].handler \in {"chat", "legacy"}
            /\ <<LastReply(r).object, LastReply(r).framing>> =
                IF rq[r].handler = "legacy" THEN <<"text_completion", "json">>
                ELSE IF rq[r].body.stream = "true"
                THEN <<"chat.completion.chunk", "sse">>
                ELSE <<"chat.completion", "json">>

C13_Witness ==
    \E r \in Reqs :
        /\ Done(r) /\ rq[r].handler = "legacy" /\ rq[r].body.stream = "true"
        /\ LastReply(r).object = "text_completion"
        /\ LastReply(r).framing = "json"

\* the chat body was parsed and names a model that the table does not map
NamesUnmappedModel(r) ==
    /\ rq[r].authed /\ rq[r].handler = "chat" /\ rq[r].parsed
    /\ rq[r].body.model.t = "str"
    /\ rq[r].body.model.v \notin DOMAIN MODEL_MAPPINGS(variant)

\* C14: an authenticated chat request whose model is not one of the mapped
\* model names is answered with status 400.
C14_InvalidModelIs400 ==
    \A r \in Reqs :
        Done(r) /\ NamesUnmappedModel(r) => LastReply(r).status = 400

\* some handler ran for the request: a body was awaited or read, the model
\* list was answered, or the backend was called
HandlerRan(r) ==
    \/ rq[r].handler # "none"
    \/ rq[r].pc = "body"
    \/ rq[r].parsed
    \/ rq[r].calls > 0
    \/ \E i \in 1..Len(rq[r].replies) :
        rq[r].replies[i].object = "list" \/ IsSuccess(rq[r].replies[i])

\* C15: for a request whose path starts with /v1/ and whose method is not
\* OPTIONS no handler runs (no body is read, no model list is answered, no
\* backend call is made) unless a proxy key is configured and the
\* Authorization header is exactly "Bearer " followed by that key.
C15_AuthGatesCore ==
    \A r \in Reqs :
        StartsWithV1(rq[r].path) /\ rq[r].method # "OPTIONS" /\ HandlerRan(r) =>
            /\ proxyKey \notin {Undef, Str("")}
            /\ rq[r].header = Header("Bearer ", proxyKey.v)

C15_Witness ==
    \E r \in Reqs :
        /\ rq[r].path = "/v1/completions" /\ rq[r].method = "POST"
        /\ rq[r].header = Header("Bearer ", "k1")
        /\ rq[r].calls > 0

\* the outcome of authentication by the stated precedence
ClaimedAuth(header, key) ==
    IF key \in {Undef, Str("")}
    THEN <<500, "configuration_error", "missing_api_key">>
    ELSE IF header = NoHeader \/ header.prefix # "Bearer "
    THEN <<401, "authentication_error", "invalid_api_key">>
    ELSE IF header.rest # key.v
    THEN <<401, "authentication_error", "invalid_api_key">>
    ELSE <<200, "", "">>

\* C16: on a /v1/ request, without a configured proxy key the answer is 500
\* configuration_error / missing_api_key whatever the header; otherwise a
\* missing header or one not starting with "Bearer " gives 401
\* authentication_error / invalid_api_key; otherwise a token that differs
\* from the key gives the same 401; otherwise authentication succeeds.
C16_AuthPrecedence ==
    \A r \in Reqs :
        rq[r].pc # "new" /\ StartsWithV1(rq[r].path) /\ rq[r].method # "OPTIONS" =>
            LET claimed == ClaimedAuth(rq[r].header, proxyKey)
            IN  IF claimed[1] = 200
                THEN /\ rq[r].authed
                     /\ \A i \in 1..Len(rq[r].replies) :
                         rq[r].replies[i].etype \notin
                             {"configuration_error", "authentication_error"}
                ELSE /\ ~rq[r].authed
                     /\ Len(rq[r].replies) = 1
                     /\ <<rq[r].replies[1].status, rq[r].replies[1].etype,
                          rq[r].replies[1].ecode>> = claimed

C16_Witness ==
    \E r \in Reqs :
        /\ proxyKey = Undef
        /\ rq[r].path = "/v1/chat/completions" /\ rq[r].method = "POST"
        /\ rq[r].header = Header("Bearer ", "k1")
        /\ Done(r) /\ LastReply(r).status = 500
        /\ LastReply(r).ecode = "missing_api_key"

C18_UsageIsPlaceholder ==
    \A r \in Reqs : \A i \in 1..Len(rq[r].replies) :
        rq[r].replies[i].object \in {"chat.completion", "text_completion"} =>
            /\ Len(rq[r].replies[i].usage) = 3
            /\ \A k \in 1..3 : rq[r].replies[i].usage[k] = 0

C18_Witness ==
    \E r \in Reqs :
        /\ Done(r) /\ LastReply(r).object = "chat.completion"
        /\ LastReply(r).content = <<"h", "i">>
        /\ LastReply(r).usage = <<0, 0, 0>>

\* every status the request has seen so far, the submission's included, is
\* starting or processing
StillRunning(r) ==
    /\ rq[r].seen # <<>>
    /\ \A i \in 1..Len(rq[r].seen) : rq[r].seen[i] \in InProgress

\* C20: while the backend has reported starting or processing on the
\* submission and on each of the next n-1 status fetches, callReplicateAPI
\* goes on to an n-th wait and status fetch: it is waiting with the timer
\* able to fire, or has issued the n-th fetch, and it has ended only when a
\* fetch raised or was answered outside 2xx, never on its own.
C20_PollingUnbounded ==
    \A r \in Reqs :
        StillRunning(r) =>
            \/ /\ rq[r].pc = "wait"
               /\ rq[r].fetches = Len(rq[r].seen) - 1
               /\ ENABLED Wait(r)
            \/ /\ rq[r].pc = "poll"
               /\ rq[r].fetches = Len(rq[r].seen)
            \/ /\ rq[r].pc = "done"
               /\ rq[r].fetches = Len(rq[r].seen)
               /\ rq[r].invoke = "threw"
               /\ rq[r].caught = FetchFailed \/ rq[r].badHttp

C20_Witness ==
    \E r \in Reqs :
        /\ StillRunning(r)
        /\ Len(rq[r].seen) = MaxPolls
        /\ rq[r].pc = "poll"
        /\ rq[r].waits = MaxPolls

\* the request has been answered or lost
Finished(r) == rq[r].pc \in {"done", "crashed", "hung"}

\* the request has arrived and has not been answered yet
InFlight(r) == rq[r].pc # "new" /\ ~Finished(r)

\* some step of the request can be taken
CanStep(r) ==
    ENABLED (\/ HandleRequest(r) \/ BodyFails(r) \/ BodyParsed(r)
             \/ RunReturns(r) \/ RunRaises(r)
             \/ SubmitRaises(r) \/ SubmitRejected(r) \/ SubmitAccepted(r)
             \/ Wait(r) \/ PollRaises(r) \/ PollRejected(r) \/ PollAnswered(r))

\* the request line, the header, the body and the outcome of the backend job
\* of two requests are the same
SameInputs(r, s) ==
    /\ rq[r].method = rq[s].method /\ rq[r].path = rq[s].path
    /\ rq[r].header = rq[s].header
    /\ rq[r].parsed = rq[s].parsed /\ rq[r].body = rq[s].body
    /\ rq[r].seen = rq[s].seen /\ rq[r].result = rq[s].result
    /\ rq[r].invoke = rq[s].invoke /\ rq[r].output = rq[s].output
    /\ rq[r].badHttp = rq[s].badHttp /\ rq[r].caught = rq[s].caught

\* every status fetch of the request asked for the job its own submission
\* created
PollsOwnJob(r) ==
    /\ rq[r].jobId \in {NoId, JobId(r)}
    /\ rq[r].polledId = IF rq[r].fetches > 0 THEN JobId(r) ELSE NoId

\* C19: with two requests in flight, in any interleaving, a step of one
\* request changes nothing of another that is in flight, a request that is not finished can
\* always take its next step whatever the other is suspended in, every
\* status fetch asks for the job the request's own submission created, and
\* two answered requests with the same request line, header, body and
\* backend outcome have the same replies.
C19_RequestsIndependent ==
    [][\A r \in Reqs :
        /\ rq'[r] # rq[r] /\ rq[r].pc # rq'[r].pc /\ ~Finished(r) =>
            \A s \in Reqs \ {r} : InFlight(s) => rq'[s] = rq[s]
        /\ ~Finished(r) => CanStep(r)
        /\ PollsOwnJob(r)'
        /\ \A s \in Reqs :
            (Done(r) /\ Done(s) /\ SameInputs(r, s))' => rq'[r].replies = rq'[s].replies
      ]_vars

\* C21: a request that was routed to a handler eventually receives exactly
\* one response, a success or an error envelope, and its handler does not
\* stay suspended forever, given that its body stream ends or errors, every
\* backend call returns or raises and the job leaves starting/processing.
C21_EventuallyAnswered ==
    (rq["r1"].handler # "none") ~>
        (rq["r1"].pc = "done" /\ Len(rq["r1"].replies) = 1)

\* C22: a request makes at most one backend submission (one prediction POST
\* in the Worker, one replicate.run call in the Node server, with or without
\* the stream flag), and once the submission or a status fetch has failed
\* the request is answered and takes no further step: nothing is retried.
C22_NothingRetried ==
    \A r \in Reqs :
        /\ rq[r].calls <= 1
        /\ rq[r].invoke = "threw" =>
            /\ Done(r) /\ ~CanStep(r)
            /\ Len(rq[r].replies) = 1 /\ LastReply(r).object = "error"

C22_Witness ==
    \E r \in Reqs :
        /\ Done(r) /\ rq[r].invoke = "threw" /\ rq[r].badHttp
        /\ rq[r].body.stream = "true"
        /\ rq[r].calls = 1 /\ rq[r].fetches = 2

\* the status that ended the poll loop of the request
LastStatus(r) == rq[r].seen[Len(rq[r].seen)]

\* C23: callReplicateAPI returns an output, and the handler answers 200
\* with a success envelope, only if the last status observed is succeeded;
\* every other status that ends the poll loop (failed, canceled, a missing
\* status) makes the call fail and is answered 502 upstream_error, never
\* with a success and never with 500.
C23_OnlySucceededReturns ==
    \A r \in Reqs :
        IsWorker(variant) /\ Done(r) /\ rq[r].seen # <<>>
        /\ LastStatus(r) \notin InProgress \cup {"succeeded"} =>
            /\ rq[r].invoke = "threw"
            /\ LastReply(r).status = 502
            /\ LastReply(r).etype = "upstream_error"

\* C24: once the submission response or a status fetch shows a status other
\* than starting/processing the request issues no further status fetch for
\* the job, and the response is built from the job state that the most
\* recent fetch returned.
C24_JobConsumedOnce ==
    \A r \in Reqs :
        rq[r].seen # <<>> =>
            /\ \A i \in 1..(Len(rq[r].seen) - 1) : rq[r].seen[i] \in InProgress
            /\ rq[r].result.status = LastStatus(r)
            /\ LastStatus(r) \notin InProgress =>
                /\ Done(r) /\ ~ENABLED Wait(r)
                /\ rq[r].fetches = Len(rq[r].seen) - 1
                /\ rq[r].invoke = "returned" => rq[r].output = rq[r].result.output

C24_Witness ==
    \E r \in Reqs :
        /\ Done(r)
        /\ rq[r].seen = <<"starting", "succeeded">>
        /\ rq[r].fetches = 1
        /\ rq[r].result.output = Fragments(<<<<"a">>, <<"b", "\n">>>>)
        /\ LastReply(r).content = <<"a", "b">>

\* the envelope is a chunk built for a chat request with the stream flag
ChunkBuilt == cv.pc = "formatted" /\ cv.handler = "chat" /\ cv.stream = "true"

\* the chunk agrees with the chat-completion envelope of the same output and
\* model in id, model, index, role, finish reason and trimmed content, and
\* carries them under delta where the other has message
SameButDelta(chunk, full) ==
    /\ chunk.id = full.id /\ chunk.model = full.model
    /\ chunk.choice = full.choice
    /\ chunk.choice = [index |-> 0, role |-> "assistant", finish_reason |-> "stop"]
    /\ chunk.content = full.content
    /\ chunk.field = "delta" /\ full.field = "message"

C26_LegacyPromptVerbatim ==
    \A r \in Reqs :
        rq[r].handler = "legacy" /\ rq[r].calls > 0 =>
            /\ rq[r].input.prompt = rq[r].body.prompt
            /\ rq[r].prompt = rq[r].body.prompt

C26_Witness ==
    \E r \in Reqs :
        /\ rq[r].handler = "legacy" /\ rq[r].calls = 1
        /\ rq[r].body.prompt = Text(<<"h", "i">>)
        /\ rq[r].input.prompt = Text(<<"h", "i">>)

\* C27: the backend input of every invocation is {prompt, max_new_tokens,
\* temperature}; max_new_tokens is the inbound max_tokens when supplied and
\* 500 otherwise, temperature the inbound temperature when supplied and 0.7
\* otherwise, supplied values unchanged whatever their size; an absent
\* stream flag counts as false.
C27_BackendInput ==
    \A r \in Reqs :
        rq[r].calls > 0 =>
            /\ DOMAIN rq[r].input = {"prompt", "max_new_tokens", "temperature"}
            /\ rq[r].input.prompt = rq[r].prompt
            /\ rq[r].input.max_new_tokens =
                IF rq[r].body.max_tokens = NoNum THEN [t |-> "num", n |-> 500]
                ELSE rq[r].body.max_tokens
            /\ rq[r].input.temperature =
                IF rq[r].body.temperature = NoNum THEN [t |-> "num", n |-> 7]
                ELSE rq[r].body.temperature
            /\ rq[r].body.stream = "absent" =>
                \A i \in 1..Len(rq[r].replies) : rq[r].replies[i].framing = "json"

C27_Witness ==
    \E r \in Reqs :
        /\ rq[r].calls = 1
        /\ rq[r].body.max_tokens = Num(100000) /\ rq[r].body.temperature = NoNum
        /\ rq[r].input.max_new_tokens = Num(100000)
        /\ rq[r].input.temperature = Num(7)

\* C28: getModelVersion returns the version of a backend model that the
\* version table holds and the version of meta/llama-2-7b-chat for every
\* other one, so the version of every job submission is one of the table's
\* versions and never absent, whatever the inbound model identifier.
C28_VersionTotal ==
    \A r \in Reqs :
        IsWorker(variant) /\ rq[r].calls > 0 =>
            /\ rq[r].version \in {Str("13c3cdee"), Str("02e509c7")}
            /\ rq[r].version =
                IF rq[r].replicateModel = Str("meta/llama-2-70b-chat")
                THEN Str("02e509c7") ELSE Str("13c3cdee")

C28_Witness ==
    \E r \in Reqs :
        /\ IsWorker(variant) /\ rq[r].calls = 1
        /\ rq[r].body.model = Str("constructor")
        /\ rq[r].replicateModel \notin
            {Str("meta/llama-2-7b-chat"), Str("meta/llama-2-70b-chat")}
        /\ rq[r].version = Str("13c3cdee")

\* the routes the server knows
Matched(method, path) ==
    \/ method = "OPTIONS"
    \/ method = "GET" /\ path \in {"/health", "/v1/models"}
    \/ method = "POST" /\ path \in {"/v1/chat/completions", "/v1/completions"}

\* C29: a request whose method and path match no route is answered 404
\* invalid_request_error / not_found without a backend call; under /v1/ the
\* key is checked first, so an unauthenticated request to an unmatched /v1/
\* route is answered with the authentication error (401 or 500), not 404.
C29_UnmatchedIs404 ==
    \A r \in Reqs :
        rq[r].pc # "new" /\ ~Matched(rq[r].method, rq[r].path) =>
            /\ rq[r].calls = 0 /\ ~rq[r].parsed
            /\ Len(rq[r].replies) = 1
            /\ <<rq[r].replies[1].status, rq[r].replies[1].etype,
                 rq[r].replies[1].ecode>> =
                IF StartsWithV1(rq[r].path)
                   /\ ClaimedAuth(rq[r].header, proxyKey)[1] # 200
                THEN ClaimedAuth(rq[r].header, proxyKey)
                ELSE <<404, "invalid_request_error", "not_found">>


\* C30: for the same authenticated request and the same backend outcome the
\* Node server (replicate.run) and the Worker (callReplicateAPI) answer with
\* the same status code and the same envelope.
C30_SameContract ==
    rq["node"].pc = "done" /\ rq["worker"].pc = "done" =>
        rq["node"].replies = rq["worker"].replies

============================================================================
